---------------------------- MODULE Spec2Model ----------------------------
(***************************************************************************)
(* Model of src/app.py: the provider fallback chain of                     *)
(* EnhancedFootballAPI (get_todays_matches and its adapters) and the       *)
(* AdvancedAnalyzer (team-stats cache, stats generation, recommendation).  *)
(*                                                                         *)
(* Conventions.                                                            *)
(*  - Text that the code inspects (league names, filter tokens) is a       *)
(*    tuple of one-character strings, so lower() and the `in` substring    *)
(*    test are computed, not assumed.  Text the code only copies is a      *)
(*    TLA+ string.                                                         *)
(*  - Decimal odds are integers in hundredths, goals are integers in       *)
(*    thousandths before rounding and in tenths after round(x, 1).         *)
(*  - A raw match lists its absent JSON keys in `absent`; reading one      *)
(*    raises, as the dict lookups of the code do.                          *)
(*  - A call of the random module is a draw chosen by the environment.     *)
(***************************************************************************)
EXTENDS Integers, Sequences, FiniteSets, TLC

VARIABLES
    \* EnhancedFootballAPI: the keys read at construction (app.py:200-202)
    football_data_key, rapidapi_key, sportmonks_key,
    \* what each provider answers when it is asked today
    world,
    \* one get_todays_matches call: argument, position, loop index
    league_filter, fpc, idx,
    \* history of the call: adapters invoked (in order, with outcome and
    \* whether the adapter sent its request; for the generator the weekday
    \* it read from the clock), the
    \* records an adapter had appended to `processed` when it raised, and
    \* what the call handed to its caller
    calls, dropped, ret,
    \* AdvancedAnalyzer: self.cache (app.py:517), a dict team -> stats
    cache,
    \* the wall clock in minutes, and for each cached team the time its
    \* stats were computed and stored
    now, storedAt,
    \* the last operation on the analyzer and what it returned
    last,
    \* concurrent get_team_stats calls on the shared analyzer: each thread's
    \* position and locals; how often stats were generated and stored per team
    threads, generated, stored,
    \* the sqlite file betting_analysis.db (app.py:19): its tables and how
    \* many rows each holds
    db

fetchVars == <<football_data_key, rapidapi_key, sportmonks_key, world,
               league_filter, fpc, idx, calls, dropped, ret>>
cacheVars == <<cache, now, storedAt, last>>
raceVars == <<threads, generated, stored>>
vars == <<fetchVars, cacheVars, raceVars, db>>

-----------------------------------------------------------------------------
(* Values *)

\* league_filter=None: a value no text equals
None == <<"None">>

Min(a, b) == IF a < b THEN a ELSE b
Max(a, b) == IF a > b THEN a ELSE b
\* variant: the signed difference
Signed(a) == a
Abs(a) == IF a < 0 THEN 0 - a ELSE a

\* round-to-nearest of a / b for a >= 0, b > 0
RoundDiv(a, b) == (2 * a + b) \div (2 * b)

SeqToSet(s) == {s[i] : i \in 1..Len(s)}

-----------------------------------------------------------------------------
(* Text: str.lower() and the substring test `a in b` *)

UpperCase == <<"A","B","C","D","E","F","G","H","I","J","K","L","M",
               "N","O","P","Q","R","S","T","U","V","W","X","Y","Z">>
LowerCase == <<"a","b","c","d","e","f","g","h","i","j","k","l","m",
               "n","o","p","q","r","s","t","u","v","w","x","y","z">>

LowerChar(c) ==
    IF \E i \in 1..26 : UpperCase[i] = c
    THEN LowerCase[CHOOSE i \in 1..26 : UpperCase[i] = c]
    ELSE c

lower(s) == [i \in 1..Len(s) |-> LowerChar(s[i])]

\* Python's `needle in hay` on str
contains(hay, needle) ==
    \E i \in 0..(Len(hay) - Len(needle)) :
        \A j \in 1..Len(needle) : hay[i + j] = needle[j]

s_PremierLeague == <<"P","r","e","m","i","e","r"," ","L","e","a","g","u","e">>
s_LaLiga == <<"L","a"," ","L","i","g","a">>
s_SerieA == <<"S","e","r","i","e"," ","A">>
s_Bundesliga == <<"B","u","n","d","e","s","l","i","g","a">>
s_ChampionsLeague == <<"C","h","a","m","p","i","o","n","s"," ","L","e","a","g","u","e">>
s_InfoLeague == <<"M","a","j","o","r"," ","l","e","a","g","u","e","s"," ",
                  "t","y","p","i","c","a","l","l","y"," ","p","l","a","y"," ",
                  "w","e","e","k","e","n","d","s"," ","a","n","d"," ",
                  "W","e","d","n","e","s","d","a","y">>

f_premier_league == <<"p","r","e","m","i","e","r","-","l","e","a","g","u","e">>
f_la_liga == <<"l","a","-","l","i","g","a">>
f_serie_a == <<"s","e","r","i","e","-","a">>
f_bundesliga == <<"b","u","n","d","e","s","l","i","g","a">>
f_ligue_1 == <<"l","i","g","u","e","-","1">>
f_champions_league == <<"c","h","a","m","p","i","o","n","s","-","l","e","a","g","u","e">>
f_europa_league == <<"e","u","r","o","p","a","-","l","e","a","g","u","e">>
f_eredivisie == <<"e","r","e","d","i","v","i","s","i","e">>
f_primeira_liga == <<"p","r","i","m","e","i","r","a","-","l","i","g","a">>
f_Bundesliga == <<"B","u","n","d","e","s","l","i","g","a">>
f_liga == <<"l","i","g","a">>
f_2_bundesliga == <<"2","-","b","u","n","d","e","s","l","i","g","a">>

\* app.py:402-412
filter_map_keys ==
    {f_premier_league, f_la_liga, f_serie_a, f_bundesliga, f_ligue_1,
     f_champions_league, f_europa_league, f_eredivisie, f_primeira_liga}

filter_map(k) ==
    CASE k = f_premier_league ->
            {<<"p","r","e","m","i","e","r"," ","l","e","a","g","u","e">>,
             <<"e","p","l">>}
      [] k = f_la_liga ->
            {<<"l","a"," ","l","i","g","a">>,
             <<"p","r","i","m","e","r","a"," ","d","i","v","i","s","i","ó","n">>,
             <<"p","r","i","m","e","r","a"," ","d","i","v","i","s","i","o","n">>}
      [] k = f_serie_a ->
            {<<"s","e","r","i","e"," ","a">>, <<"s","e","r","i","a"," ","a">>}
      [] k = f_bundesliga ->
            {<<"b","u","n","d","e","s","l","i","g","a">>,
             <<"1","."," ","b","u","n","d","e","s","l","i","g","a">>}
      [] k = f_ligue_1 ->
            {<<"l","i","g","u","e"," ","1">>, <<"l","i","g","u","e","1">>}
      [] k = f_champions_league ->
            {<<"c","h","a","m","p","i","o","n","s"," ","l","e","a","g","u","e">>,
             <<"u","e","f","a"," ","c","h","a","m","p","i","o","n","s"," ","l","e","a","g","u","e">>}
      [] k = f_europa_league ->
            {<<"e","u","r","o","p","a"," ","l","e","a","g","u","e">>,
             <<"u","e","f","a"," ","e","u","r","o","p","a"," ","l","e","a","g","u","e">>}
      [] k = f_eredivisie ->
            {<<"e","r","e","d","i","v","i","s","i","e">>}
      [] k = f_primeira_liga ->
            {<<"p","r","i","m","e","i","r","a"," ","l","i","g","a">>,
             <<"l","i","g","a"," ","p","o","r","t","u","g","a","l">>}

\* app.py:396-417
matches_league_filter(league_name, filter_value) ==
    LET league_lower == lower(league_name)
        filter_lower == lower(filter_value)
    IN  IF filter_lower \in filter_map_keys
        THEN \E keyword \in filter_map(filter_lower) :
                contains(league_lower, keyword)
        ELSE contains(league_lower, filter_lower)

\* truth value of `league_filter` in `if league_filter and ...`
Truthy(f) == f # None /\ f # <<>>

-----------------------------------------------------------------------------
(* Random draws.  A draw is a fraction n / UDen of the range it is taken   *)
(* from; the n-th fractions of one call come from a stream the environment *)
(* picks.                                                                  *)

UDen == 2

Streams == {"lo", "hi", "mix"}

\* the k-th draw (k = 0, 1, ...) of stream s, a numerator in 0..UDen
U(s, k) ==
    CASE s = "lo" -> 0
      [] s = "hi" -> UDen
      [] s = "mix" -> k % (UDen + 1)

\* app.py:503-513, in hundredths: betavariate(2, 5) and uniform both give a
\* point of [min_odds, max_odds]; round(odds, 2)
generate_realistic_odds(min_odds, max_odds, u) ==
    min_odds + RoundDiv(u * (max_odds - min_odds), UDen)

\* random.randint(a, b) at fraction u
randint(a, b, u) == a + (u * (b - a)) \div UDen


-----------------------------------------------------------------------------
(* Provider payloads.  One raw match carries the fields every adapter      *)
(* reads under its own key names: the provider's match id, status, league  *)
(* name, kick-off stamp and the two team names.                            *)

Stamp(day, hh, mm) == [day |-> day, hh |-> hh, mm |-> mm]

Raw(id, status, league, date, home, away, absent) ==
    [id |-> id, status |-> status, league |-> league, date |-> date,
     home |-> home, away |-> away, absent |-> absent]

Has(m, key) == key \notin m.absent

mPL == Raw(1, "SCHEDULED", s_PremierLeague, Stamp("today", 15, 0),
           "Arsenal", "Chelsea", {})
mBL == Raw(2, "TIMED", s_Bundesliga, Stamp("today", 17, 30),
           "Bayern Munich", "RB Leipzig", {})
mFinished == Raw(3, "FINISHED", s_PremierLeague, Stamp("today", 12, 0),
                 "Liverpool", "Brighton", {})
mNoDate == Raw(4, "SCHEDULED", s_PremierLeague, Stamp("today", 0, 0),
               "Tottenham", "Everton", {"date"})

\* a day with more fixtures than any adapter keeps
Overlong == 16
mMany ==
    [i \in 1..Overlong |->
        Raw(10 + i, "SCHEDULED", s_Bundesliga, Stamp("today", 20, 30),
            "Union Berlin", "SC Freiburg", {})]

Payloads ==
    {<<>>, <<mPL, mBL>>, <<mPL, mNoDate>>, <<mFinished>>}

\* payloads of a crowded day
LongPayloads == {<<mPL, mBL>>, mMany}

\* What requests.get gives: it raises (timeout, connection error), or it
\* answers with a status code and a JSON body; `keyed` says whether the
\* body holds the list under the key the adapter reads, `body` is that list.
Raises == [exc |-> TRUE, status_code |-> 0, keyed |-> FALSE, body |-> <<>>]
Answer(code, keyed, body) ==
    [exc |-> FALSE, status_code |-> code, keyed |-> keyed, body |-> body]

Responses ==
    {Raises, Answer(500, FALSE, <<>>), Answer(200, FALSE, <<>>)}
        \cup {Answer(200, TRUE, p) : p \in Payloads}

LongResponses == {Raises} \cup {Answer(200, TRUE, p) : p \in LongPayloads}

\* fromisoformat(...).strftime('%H:%M')
ParsesAsDate(m) == Has(m, "date") /\ m.date.day # "garbage"
HHMM(d) == <<d.hh, d.mm>>

\* an adapter's outcome: it raised (with `processed` as far as it got), it
\* returned `value`, or it caught its own exception and returned []
Raised(processed) == [exc |-> TRUE, value |-> <<>>, processed |-> processed]
Returned(value) == [exc |-> FALSE, value |-> value, processed |-> value]
Swallowed(processed) == [exc |-> FALSE, value |-> <<>>, processed |-> processed]

\* an adapter's outcome together with whether it got as far as requests.get
Asked(r) ==
    [exc |-> r.exc, value |-> r.value, processed |-> r.processed, net |-> TRUE]
Unasked(r) ==
    [exc |-> r.exc, value |-> r.value, processed |-> r.processed, net |-> FALSE]

\* the dict literal of app.py:309-320 (and 335-346, 361-372, 381-392): the
\* three odds are drawn in the order home, draw, away
Fixture(tag, source, m, league, status, s, k) ==
    [id |-> <<tag, m.id>>,
     time |-> HHMM(m.date),
     homeTeam |-> m.home,
     awayTeam |-> m.away,
     league |-> league,
     status |-> status,
     homeOdds |-> generate_realistic_odds(140, 400, U(s, k)),
     drawOdds |-> generate_realistic_odds(280, 420, U(s, k + 1)),
     awayOdds |-> generate_realistic_odds(180, 550, U(s, k + 2)),
     source |-> source]

\* the keys the dict literal reads, in order: a missing one raises
FixtureRaises(m) ==
    \/ ~Has(m, "id")
    \/ ~ParsesAsDate(m)
    \/ ~Has(m, "home")
    \/ ~Has(m, "away")

FirstN(ms, n) == SubSeq(ms, 1, Min(Len(ms), n))

\* app.py:297-322, the loop over matches[:15]
RECURSIVE process_football_data_loop(_, _, _, _)
process_football_data_loop(ms, f, s, processed) ==
    IF ms = <<>> THEN Returned(processed)
    ELSE LET match == Head(ms) IN
        IF ~Has(match, "status") THEN Raised(processed)
        ELSE IF match.status \notin {"SCHEDULED", "TIMED", "IN_PLAY", "LIVE"}
        THEN process_football_data_loop(Tail(ms), f, s, processed)
        ELSE IF ~Has(match, "league") THEN Raised(processed)
        ELSE IF Truthy(f) /\ ~matches_league_filter(match.league, f)
        THEN process_football_data_loop(Tail(ms), f, s, processed)
        ELSE IF FixtureRaises(match) THEN Raised(processed)
        ELSE process_football_data_loop(Tail(ms), f, s,
                Append(processed,
                       Fixture("fd_", "Football-Data.org", match, match.league,
                               match.status, s, 3 * Len(processed))))

process_football_data_matches(matches, f, s) ==
    process_football_data_loop(FirstN(matches, 15), f, s, <<>>)

\* app.py:324-348
RECURSIVE process_rapidapi_loop(_, _, _, _)
process_rapidapi_loop(ms, f, s, processed) ==
    IF ms = <<>> THEN Returned(processed)
    ELSE LET fixture == Head(ms) IN
        IF ~Has(fixture, "league") THEN Raised(processed)
        ELSE IF Truthy(f) /\ ~matches_league_filter(fixture.league, f)
        THEN process_rapidapi_loop(Tail(ms), f, s, processed)
        ELSE IF FixtureRaises(fixture) \/ ~Has(fixture, "status")
        THEN Raised(processed)
        ELSE process_rapidapi_loop(Tail(ms), f, s,
                Append(processed,
                       Fixture("ra_", "RapidAPI Football", fixture,
                               fixture.league, fixture.status, s,
                               3 * Len(processed))))

process_rapidapi_matches(fixtures, f, s) ==
    process_rapidapi_loop(FirstN(fixtures, 15), f, s, <<>>)

\* app.py:350-374
RECURSIVE process_sportmonks_loop(_, _, _, _)
process_sportmonks_loop(ms, f, s, processed) ==
    IF ms = <<>> THEN Returned(processed)
    ELSE LET fixture == Head(ms) IN
        IF ~Has(fixture, "league")
        THEN process_sportmonks_loop(Tail(ms), f, s, processed)
        ELSE IF Truthy(f) /\ ~matches_league_filter(fixture.league, f)
        THEN process_sportmonks_loop(Tail(ms), f, s, processed)
        ELSE IF FixtureRaises(fixture) \/ ~Has(fixture, "status")
        THEN Raised(processed)
        ELSE process_sportmonks_loop(Tail(ms), f, s,
                Append(processed,
                       Fixture("sm_", "Sportmonks", fixture, fixture.league,
                               fixture.status, s, 3 * Len(processed))))

process_sportmonks_matches(fixtures, f, s) ==
    process_sportmonks_loop(FirstN(fixtures, 15), f, s, <<>>)

\* app.py:376-394
RECURSIVE process_openliga_loop(_, _, _)
process_openliga_loop(ms, s, processed) ==
    IF ms = <<>> THEN Returned(processed)
    ELSE LET match == Head(ms) IN
        IF FixtureRaises(match) THEN Raised(processed)
        ELSE process_openliga_loop(Tail(ms), s,
                Append(processed,
                       Fixture("ol_", "OpenLigaDB", match, s_Bundesliga,
                               "SCHEDULED", s, 3 * Len(processed))))

\* variant: the loop runs over the whole list
process_openliga_matches_all(matches, s) ==
    process_openliga_loop(matches, s, <<>>)

process_openliga_matches(matches, s) ==
    process_openliga_loop(FirstN(matches, 10), s, <<>>)


-----------------------------------------------------------------------------
(* The adapters *)

\* variant: the adapter catches the exception of the normalisation itself
\* and returns what it had processed
fetch_from_football_data_partial(key, response, f, s) ==
    IF ~key THEN Unasked(Returned(<<>>))
    ELSE Asked(
        IF response.exc THEN Raised(<<>>)
        ELSE IF response.status_code = 200
        THEN IF ~response.keyed THEN Raised(<<>>)
             ELSE Returned(
                    process_football_data_matches(response.body, f, s).processed)
        ELSE Returned(<<>>))

\* app.py:230-244
fetch_from_football_data(key, response, f, s) ==
    IF ~key THEN Unasked(Returned(<<>>))
    ELSE Asked(
        IF response.exc THEN Raised(<<>>)
        ELSE IF response.status_code = 200
        THEN IF ~response.keyed THEN Raised(<<>>)
             ELSE process_football_data_matches(response.body, f, s)
        ELSE Returned(<<>>))

\* app.py:246-263
fetch_from_rapidapi_football(key, response, f, s) ==
    IF ~key THEN Unasked(Returned(<<>>))
    ELSE Asked(
        IF response.exc THEN Raised(<<>>)
        ELSE IF response.status_code = 200
        THEN IF ~response.keyed THEN Raised(<<>>)
             ELSE process_rapidapi_matches(response.body, f, s)
        ELSE Returned(<<>>))

\* variant: the request is sent first and the key looked at afterwards
fetch_from_sportmonks_eager(key, response, f, s) ==
    Asked(
        IF response.exc THEN Raised(<<>>)
        ELSE IF ~key THEN Returned(<<>>)
        ELSE IF response.status_code = 200
        THEN process_sportmonks_matches(
                IF response.keyed THEN response.body ELSE <<>>, f, s)
        ELSE Returned(<<>>))

\* app.py:265-278; data.get('data', []) turns a body without the key into []
fetch_from_sportmonks(key, response, f, s) ==
    IF ~key THEN Unasked(Returned(<<>>))
    ELSE Asked(
        IF response.exc THEN Raised(<<>>)
        ELSE IF response.status_code = 200
        THEN process_sportmonks_matches(
                IF response.keyed THEN response.body ELSE <<>>, f, s)
        ELSE Returned(<<>>))

\* [m for m in matches if m['matchDateTime'][:10] == date], app.py:290
RECURSIVE today_matches(_)
today_matches(ms) ==
    IF ms = <<>> THEN <<>>
    ELSE IF Head(ms).date.day = "today"
         THEN <<Head(ms)>> \o today_matches(Tail(ms))
         ELSE today_matches(Tail(ms))

\* app.py:280-295; the bare except turns every exception into []
fetch_from_free_sources(response, f, s) ==
    IF ~Truthy(f) \/ contains(lower(f), f_bundesliga)
    THEN Asked(
         IF response.exc THEN Swallowed(<<>>)
         ELSE IF response.status_code = 200
         THEN IF ~response.keyed THEN Swallowed(<<>>)
              ELSE IF \E i \in 1..Len(response.body) :
                          ~Has(response.body[i], "date")
              THEN Swallowed(<<>>)
              ELSE LET r == process_openliga_matches(
                                today_matches(response.body), s)
                   IN  IF r.exc THEN Swallowed(r.processed) ELSE r
         ELSE Returned(<<>>))
    ELSE Unasked(Returned(<<>>))

-----------------------------------------------------------------------------
(* The synthetic generator *)

\* app.py:425-456
all_matches_keys ==
    {f_premier_league, f_la_liga, f_serie_a, f_bundesliga, f_champions_league}

all_matches(k) ==
    CASE k = f_premier_league ->
            << <<"Arsenal", "Manchester City", s_PremierLeague>>,
               <<"Liverpool", "Chelsea", s_PremierLeague>>,
               <<"Manchester United", "Tottenham", s_PremierLeague>>,
               <<"Newcastle United", "Brighton", s_PremierLeague>> >>
      [] k = f_la_liga ->
            << <<"Real Madrid", "Barcelona", s_LaLiga>>,
               <<"Atletico Madrid", "Sevilla", s_LaLiga>>,
               <<"Valencia", "Villarreal", s_LaLiga>>,
               <<"Real Betis", "Athletic Bilbao", s_LaLiga>> >>
      [] k = f_serie_a ->
            << <<"Inter Milan", "AC Milan", s_SerieA>>,
               <<"Juventus", "Napoli", s_SerieA>>,
               <<"AS Roma", "Lazio", s_SerieA>>,
               <<"Atalanta", "Fiorentina", s_SerieA>> >>
      [] k = f_bundesliga ->
            << <<"Bayern Munich", "Borussia Dortmund", s_Bundesliga>>,
               <<"RB Leipzig", "Bayer Leverkusen", s_Bundesliga>>,
               <<"Union Berlin", "Eintracht Frankfurt", s_Bundesliga>>,
               <<"SC Freiburg", "VfL Wolfsburg", s_Bundesliga>> >>
      [] k = f_champions_league ->
            << <<"Real Madrid", "Manchester City", s_ChampionsLeague>>,
               <<"Barcelona", "Bayern Munich", s_ChampionsLeague>>,
               <<"PSG", "Liverpool", s_ChampionsLeague>>,
               <<"Inter Milan", "Arsenal", s_ChampionsLeague>> >>

\* today.strftime("%A") for weekday() = 0..6
DayName(d) ==
    <<"Monday", "Tuesday", "Wednesday", "Thursday", "Friday", "Saturday",
      "Sunday">>[d + 1]

\* app.py:469-481.  The date text of awayTeam is the format itself: only
\* the weekday of the clock is modelled.
InfoRecord(day_of_week) ==
    [id |-> <<"info-no-matches">>,
     time |-> <<"No matches">>,
     homeTeam |-> <<"Today is ", DayName(day_of_week)>>,
     awayTeam |-> "%B %d",
     league |-> s_InfoLeague,
     status |-> "INFO",
     homeOdds |-> 0,
     drawOdds |-> 0,
     awayOdds |-> 0,
     source |-> "system",
     isInfo |-> TRUE]

\* variant: every sample record gets the id of the first
SampleRecord_SameId(i, t, s) ==
    LET minutes == 15 * 60 + 120 * i + randint(0, 45, U(s, 4 * i))
    IN  [id |-> <<"sample-", 0>>,
         time |-> <<(minutes \div 60) % 24, minutes % 60>>,
         homeTeam |-> t[1],
         awayTeam |-> t[2],
         league |-> t[3],
         status |-> "SCHEDULED",
         homeOdds |-> generate_realistic_odds(150, 350, U(s, 4 * i + 1)),
         drawOdds |-> generate_realistic_odds(300, 400, U(s, 4 * i + 2)),
         awayOdds |-> generate_realistic_odds(200, 450, U(s, 4 * i + 3)),
         source |-> "Intelligent Sample"]

\* app.py:484-499: record i (0-based) of the enumerate loop; the minutes
\* are drawn first, then the three odds
SampleRecord(i, t, s) ==
    LET minutes == 15 * 60 + 120 * i + randint(0, 45, U(s, 4 * i))
    IN  [id |-> <<"sample-", i>>,
         time |-> <<(minutes \div 60) % 24, minutes % 60>>,
         homeTeam |-> t[1],
         awayTeam |-> t[2],
         league |-> t[3],
         status |-> "SCHEDULED",
         homeOdds |-> generate_realistic_odds(150, 350, U(s, 4 * i + 1)),
         drawOdds |-> generate_realistic_odds(300, 400, U(s, 4 * i + 2)),
         awayOdds |-> generate_realistic_odds(200, 450, U(s, 4 * i + 3)),
         source |-> "Intelligent Sample"]

\* variant: the weekday decides before the filter is looked at
get_intelligent_matches_day_first(f, day_of_week, s) ==
    IF (Truthy(f) /\ f \in all_matches_keys)
        \/ day_of_week \in {5, 6} \/ day_of_week = 2
    THEN LET selected_teams ==
                 IF day_of_week \in {5, 6}
                 THEN FirstN(all_matches(f_premier_league), 2)
                        \o FirstN(all_matches(f_la_liga), 2)
                        \o FirstN(all_matches(f_serie_a), 1)
                        \o FirstN(all_matches(f_bundesliga), 1)
                 ELSE IF day_of_week = 2 THEN all_matches(f_champions_league)
                 ELSE all_matches(f)
         IN  [i \in 1..Len(selected_teams) |->
                 SampleRecord(i - 1, selected_teams[i], s)]
    ELSE <<InfoRecord(day_of_week)>>


\* variant: the blended set is served on Friday and Saturday
get_intelligent_matches_friday(f, day_of_week, s) ==
    IF (Truthy(f) /\ f \in all_matches_keys)
        \/ day_of_week \in {4, 5} \/ day_of_week = 2
    THEN LET selected_teams ==
                 IF Truthy(f) /\ f \in all_matches_keys THEN all_matches(f)
                 ELSE IF day_of_week \in {4, 5}
                 THEN FirstN(all_matches(f_premier_league), 2)
                        \o FirstN(all_matches(f_la_liga), 2)
                        \o FirstN(all_matches(f_serie_a), 1)
                        \o FirstN(all_matches(f_bundesliga), 1)
                 ELSE all_matches(f_champions_league)
         IN  [i \in 1..Len(selected_teams) |->
                 SampleRecord(i - 1, selected_teams[i], s)]
    ELSE <<InfoRecord(day_of_week)>>


\* app.py:419-501
get_intelligent_matches(f, day_of_week, s) ==
    IF (Truthy(f) /\ f \in all_matches_keys)
        \/ day_of_week \in {5, 6} \/ day_of_week = 2
    THEN LET selected_teams ==
                 IF Truthy(f) /\ f \in all_matches_keys THEN all_matches(f)
                 ELSE IF day_of_week \in {5, 6}
                 THEN FirstN(all_matches(f_premier_league), 2)
                        \o FirstN(all_matches(f_la_liga), 2)
                        \o FirstN(all_matches(f_serie_a), 1)
                        \o FirstN(all_matches(f_bundesliga), 1)
                 ELSE all_matches(f_champions_league)
         IN  [i \in 1..Len(selected_teams) |->
                 SampleRecord(i - 1, selected_teams[i], s)]
    ELSE <<InfoRecord(day_of_week)>>

-----------------------------------------------------------------------------
(* get_todays_matches, app.py:205-228 *)

\* variant: the first two adapters listed the other way round
sources_reordered ==
    <<"fetch_from_rapidapi_football", "fetch_from_football_data",
      "fetch_from_sportmonks", "fetch_from_free_sources">>

\* app.py:210-215
sources ==
    <<"fetch_from_football_data", "fetch_from_rapidapi_football",
      "fetch_from_sportmonks", "fetch_from_free_sources">>

\* source_func(today, league_filter), app.py:219
Invoke(name, f, s) ==
    CASE name = "fetch_from_football_data" ->
            fetch_from_football_data(football_data_key, world[name], f, s)
      [] name = "fetch_from_rapidapi_football" ->
            fetch_from_rapidapi_football(rapidapi_key, world[name], f, s)
      [] name = "fetch_from_sportmonks" ->
            fetch_from_sportmonks(sportmonks_key, world[name], f, s)
      [] name = "fetch_from_free_sources" ->
            fetch_from_free_sources(world[name], f, s)

\* app.py:218-225: what one pass of the loop body does with the outcome r
\* of the adapter: "return" the list, go on to the "next" adapter, or (not
\* in this code) "raise" to the caller or "retry" the same adapter
\* variant: no except clause around the adapter call
LoopBody_NoExcept(r) ==
    IF r.exc THEN "raise"
    ELSE IF r.value # <<>> THEN "return"
    ELSE "next"

\* variant: an adapter that raised is tried again
LoopBody_Retry(r) ==
    IF r.exc THEN "retry"
    ELSE IF r.value # <<>> THEN "return"
    ELSE "next"

LoopBody(r) ==
    IF r.exc THEN "next"
    ELSE IF r.value # <<>> THEN "return"
    ELSE "next"

Outcome(r) ==
    IF r.exc THEN "raised" ELSE IF r.value = <<>> THEN "empty" ELSE "nonempty"

NoResult == [kind |-> "none", value |-> <<>>]

Filters == {None, f_premier_league, f_Bundesliga, f_liga}

InitFetchWith(R) ==
    /\ football_data_key \in BOOLEAN
    /\ rapidapi_key \in BOOLEAN
    /\ sportmonks_key \in BOOLEAN
    /\ world \in [SeqToSet(sources) -> R]
    \* a provider without a key is never asked: its answer is immaterial
    /\ ~football_data_key => world["fetch_from_football_data"] = Raises
    /\ ~rapidapi_key => world["fetch_from_rapidapi_football"] = Raises
    /\ ~sportmonks_key => world["fetch_from_sportmonks"] = Raises
    /\ league_filter = None
    /\ fpc = "idle"
    /\ idx = 0
    /\ calls = <<>>
    /\ dropped = {}
    /\ ret = NoResult

InitFetch == InitFetchWith(Responses)

\* the route calls football_api.get_todays_matches(league_filter), app.py:706
RequestWith(F) ==
    /\ fpc = "idle"
    /\ \E f \in F : league_filter' = f
    /\ fpc' = "loop"
    /\ idx' = 1
    /\ UNCHANGED <<football_data_key, rapidapi_key, sportmonks_key, world,
                   calls, dropped, ret>>
    /\ UNCHANGED <<cacheVars, raceVars, db>>

Request == RequestWith(Filters)

\* one pass of `for source_func in sources`, app.py:217-225
TrySource ==
    /\ fpc = "loop"
    /\ idx \in 1..Len(sources)
    /\ \E s \in Streams :
      \E r \in {Invoke(sources[idx], league_filter, s)} :
        LET todo == LoopBody(r)
        IN  /\ calls' = Append(calls, [name |-> sources[idx],
                                       outcome |-> Outcome(r),
                                       net |-> r.net])
            /\ dropped' = dropped \cup
                            (SeqToSet(r.processed) \ SeqToSet(r.value))
            /\ ret' = CASE todo = "return" -> [kind |-> "list", value |-> r.value]
                        [] todo = "raise" -> [kind |-> "exception", value |-> <<>>]
                        [] OTHER -> ret
            /\ fpc' = IF todo \in {"return", "raise"} THEN "done" ELSE fpc
            /\ idx' = IF todo = "next" THEN idx + 1 ELSE idx
    /\ UNCHANGED <<football_data_key, rapidapi_key, sportmonks_key, world,
                   league_filter>>
    /\ UNCHANGED <<cacheVars, raceVars, db>>

\* return self.get_intelligent_matches(league_filter), app.py:228; the
\* generator reads the clock itself (app.py:421-422)
Fallback ==
    /\ fpc = "loop"
    /\ idx = Len(sources) + 1
    /\ \E day_of_week \in 0..6, s \in Streams :
        /\ ret' = [kind |-> "list",
                   value |-> get_intelligent_matches(league_filter,
                                                     day_of_week, s)]
        /\ calls' = Append(calls, [name |-> "get_intelligent_matches",
                                   outcome |-> "nonempty",
                                   net |-> FALSE,
                                   day |-> day_of_week])
    /\ fpc' = "done"
    /\ UNCHANGED <<football_data_key, rapidapi_key, sportmonks_key, world,
                   league_filter, idx, dropped>>
    /\ UNCHANGED <<cacheVars, raceVars, db>>

NextFetch == Request \/ TrySource \/ Fallback


-----------------------------------------------------------------------------
(* AdvancedAnalyzer: stats generation, app.py:528-574 *)

\* app.py:531-536
elite_teams ==
    "Real Madrid" :> 95 @@ "Manchester City" :> 94 @@ "Barcelona" :> 92 @@
    "Bayern Munich" :> 93 @@ "PSG" :> 90 @@ "Liverpool" :> 91 @@
    "Arsenal" :> 88 @@ "Chelsea" :> 87 @@ "Manchester United" :> 86 @@
    "Inter Milan" :> 85 @@ "AC Milan" :> 84 @@ "Juventus" :> 83 @@
    "Atletico Madrid" :> 87 @@ "Borussia Dortmund" :> 82 @@ "Napoli" :> 84 @@
    "Tottenham" :> 81

\* app.py:538-543
good_teams ==
    "Sevilla" :> 78 @@ "AS Roma" :> 77 @@ "Lazio" :> 76 @@ "Atalanta" :> 79 @@
    "Villarreal" :> 77 @@ "Real Betis" :> 75 @@ "West Ham United" :> 74 @@
    "Newcastle United" :> 78 @@ "Brighton" :> 76 @@ "Aston Villa" :> 75 @@
    "Fiorentina" :> 74 @@ "RB Leipzig" :> 80 @@ "Bayer Leverkusen" :> 79 @@
    "Eintracht Frankfurt" :> 75 @@ "AS Monaco" :> 77 @@ "Lille" :> 74 @@
    "Ajax" :> 78 @@ "PSV Eindhoven" :> 76

Rated(team_name) ==
    team_name \in DOMAIN elite_teams \/ team_name \in DOMAIN good_teams

Frac == 0..UDen

\* the five results random.choices can give (every weight is positive, so
\* every sequence over W, D, L can come out in every tier)
Forms ==
    {<<"W","W","W","W","W">>, <<"W","D","L","W","D">>, <<"L","L","L","L","L">>}

\* '-'.join(results)
RECURSIVE join(_)
join(results) ==
    IF Len(results) <= 1 THEN results
    ELSE <<Head(results), "-">> \o join(Tail(results))

\* app.py:562-574: the tiers differ in their weights only
generate_realistic_form(rating, results) ==
    IF rating >= 85 THEN join(results)
    ELSE IF rating >= 75 THEN join(results)
    ELSE join(results)

\* round(base + random.uniform(-spread, spread), 1) with base and spread in
\* thousandths, the result in tenths: the draw u picks one of the tenths t
\* with |100 t - base| < spread + 50, the values the rounding can give
\* (a draw exactly on a rounding tie at an end of the interval is left out)
round1_uniform(base, spread, u) ==
    LET lo == ((base - spread - 50) \div 100) + 1
        hi == ((base + spread + 50 + 99) \div 100) - 1
    IN  lo + (u * (hi - lo)) \div UDen

\* variant: a wider random default
base_rating_of_wide(team_name, u) ==
    IF team_name \in DOMAIN elite_teams THEN elite_teams[team_name]
    ELSE IF team_name \in DOMAIN good_teams THEN good_teams[team_name]
    ELSE randint(60, 90, u)

\* app.py:545: the tables first, the random default only for a team in neither
base_rating_of(team_name, u) ==
    IF team_name \in DOMAIN elite_teams THEN elite_teams[team_name]
    ELSE IF team_name \in DOMAIN good_teams THEN good_teams[team_name]
    ELSE randint(60, 75, u)

\* variant: the percentages without their min/max clamps
generate_advanced_stats_unclamped(team_name, d) ==
    LET base_rating == base_rating_of(team_name, d.rating)
        goals_for ==
            round1_uniform(1000 + (base_rating - 50) * 30, 300, d.gf)
        goals_against ==
            round1_uniform(2000 - (base_rating - 50) * 20, 200, d.ga)
    IN  [recentForm |-> generate_realistic_form(base_rating, d.form),
         goalsFor |-> Max(5, goals_for),
         goalsAgainst |-> Max(3, goals_against),
         homeWinRate |-> base_rating - 15 + randint(-10, 10, d.hw),
         awayWinRate |-> base_rating - 25 + randint(-10, 10, d.aw),
         cleanSheets |-> base_rating - 20 + randint(-15, 15, d.cs),
         confidence |-> base_rating + randint(-5, 5, d.conf),
         rating |-> base_rating]

\* app.py:528-560; d holds the draws of the random calls, in call order
generate_advanced_stats(team_name, d) ==
    LET base_rating == base_rating_of(team_name, d.rating)
        goals_for ==
            round1_uniform(1000 + (base_rating - 50) * 30, 300, d.gf)
        goals_against ==
            round1_uniform(2000 - (base_rating - 50) * 20, 200, d.ga)
    IN  [recentForm |-> generate_realistic_form(base_rating, d.form),
         goalsFor |-> Max(5, goals_for),
         goalsAgainst |-> Max(3, goals_against),
         homeWinRate |->
            Min(90, Max(30, base_rating - 15 + randint(-10, 10, d.hw))),
         awayWinRate |->
            Min(80, Max(20, base_rating - 25 + randint(-10, 10, d.aw))),
         cleanSheets |->
            Min(80, Max(15, base_rating - 20 + randint(-15, 15, d.cs))),
         confidence |-> Min(95, Max(55, base_rating + randint(-5, 5, d.conf))),
         rating |-> base_rating]

-----------------------------------------------------------------------------
(* AdvancedAnalyzer: the cache and the recommendation *)

EmptyDict == [x \in {} |-> 0]
Put(dict, key, value) ==
    [x \in DOMAIN dict \cup {key} |-> IF x = key THEN value ELSE dict[x]]

\* variant: a miss empties the cache before it stores the new stats
get_team_stats_flush(c, team_name, d) ==
    IF team_name \in DOMAIN c
    THEN [cache |-> c, stats |-> c[team_name], hit |-> TRUE]
    ELSE LET stats == generate_advanced_stats(team_name, d)
         IN  [cache |-> Put(EmptyDict, team_name, stats), stats |-> stats,
              hit |-> FALSE]

\* variant: no cache lookup, the stats are generated on every call
get_team_stats_nocache(c, team_name, d) ==
    LET stats == generate_advanced_stats(team_name, d)
    IN  [cache |-> Put(c, team_name, stats), stats |-> stats, hit |-> FALSE]

\* app.py:519-526 on cache c: the cache afterwards and the stats returned
get_team_stats(c, team_name, d) ==
    IF team_name \in DOMAIN c
    THEN [cache |-> c, stats |-> c[team_name], hit |-> TRUE]
    ELSE LET stats == generate_advanced_stats(team_name, d)
         IN  [cache |-> Put(c, team_name, stats), stats |-> stats,
              hit |-> FALSE]

\* variant: a draw that can pass the upper end of its range
round2_uniform_over(a, b, u) == a + RoundDiv(u * (b - a), UDen) + u

\* round(random.uniform(a, b), 2), in hundredths
round2_uniform(a, b, u) == a + RoundDiv(u * (b - a), UDen)

\* the reasoning literals of app.py:623-655, character by character; an
\* f-string puts the team name (one element) in front
r_home_advantage ==
    <<" ", "h", "a", "s", " ", "s", "i", "g", "n", "i", "f", "i", "c", "a",
      "n", "t", " ", "q", "u", "a", "l", "i", "t", "y", " ", "a", "d", "v",
      "a", "n", "t", "a", "g", "e", " ", "a", "t", " ", "h", "o", "m", "e">>
r_away_quality ==
    <<" ", "s", "u", "p", "e", "r", "i", "o", "r", " ", "q", "u", "a", "l",
      "i", "t", "y", " ", "o", "v", "e", "r", "c", "o", "m", "e", "s", " ",
      "h", "o", "m", "e", " ", "d", "i", "s", "a", "d", "v", "a", "n", "t",
      "a", "g", "e">>
r_moderate ==
    <<"M", "o", "d", "e", "r", "a", "t", "e", " ", "d", "i", "f", "f", "e",
      "r", "e", "n", "c", "e", " ", "s", "u", "g", "g", "e", "s", "t", "s",
      " ", "a", "v", "o", "i", "d", "i", "n", "g", " ", "o", "u", "t", "r",
      "i", "g", "h", "t", " ", "a", "w", "a", "y", " ", "w", "i", "n", " ",
      "r", "i", "s", "k">>
r_goals ==
    <<"A", "t", "t", "a", "c", "k", "i", "n", "g", " ", "s", "t", "r", "e",
      "n", "g", "t", "h", "s", " ", "v", "s", " ", "d", "e", "f", "e", "n",
      "s", "i", "v", "e", " ", "w", "e", "a", "k", "n", "e", "s", "s", "e",
      "s", " ", "s", "u", "g", "g", "e", "s", "t", " ", "g", "o", "a", "l",
      "s">>
r_cagey ==
    <<"E", "v", "e", "n", "l", "y", " ", "m", "a", "t", "c", "h", "e", "d",
      " ", "t", "e", "a", "m", "s", " ", "o", "f", "t", "e", "n", " ", "p",
      "r", "o", "d", "u", "c", "e", " ", "c", "a", "g", "e", "y", ",", " ",
      "l", "o", "w", "-", "s", "c", "o", "r", "i", "n", "g", " ", "a", "f",
      "f", "a", "i", "r", "s">>

\* variant: the confidence formulas of the two favourite branches exchanged
generate_smart_recommendation_swapped(home_team, away_team, home_stats, away_stats, strength_diff, u) ==
    LET home_strength == home_stats.confidence + 7
        away_strength == away_stats.confidence
    IN  IF strength_diff > 25
        THEN IF home_strength > away_strength
             THEN [bet |-> <<home_team, " Win">>,
                   odds |-> round2_uniform(130, 180, u),
                   confidence |-> Min(85, 70 + strength_diff \div 4),
                   type |-> "Strong Favorite",
                   reasoning |-> <<home_team>> \o r_home_advantage]
             ELSE [bet |-> <<away_team, " Win">>,
                   odds |-> round2_uniform(160, 240, u),
                   confidence |-> Min(90, 75 + strength_diff \div 3),
                   type |-> "Away Value",
                   reasoning |-> <<away_team>> \o r_away_quality]
        ELSE IF strength_diff > 15
        THEN [bet |-> <<"Double Chance">>,
              odds |-> round2_uniform(170, 200, u),
              confidence |-> 75,
              type |-> "Safety Bet",
              reasoning |-> r_moderate]
        ELSE IF Abs(home_stats.goalsFor - away_stats.goalsFor) > 7
        THEN [bet |-> <<"Both Teams to Score">>,
              odds |-> round2_uniform(160, 200, u),
              confidence |-> 72,
              type |-> "Goals Market",
              reasoning |-> r_goals]
        ELSE [bet |-> <<"Under 2.5 Goals">>,
              odds |-> round2_uniform(180, 220, u),
              confidence |-> 68,
              type |-> "Conservative",
              reasoning |-> r_cagey]

\* app.py:611-656
generate_smart_recommendation(home_team, away_team, home_stats, away_stats, strength_diff, u) ==
    LET home_strength == home_stats.confidence + 7
        away_strength == away_stats.confidence
    IN  IF strength_diff > 25
        THEN IF home_strength > away_strength
             THEN [bet |-> <<home_team, " Win">>,
                   odds |-> round2_uniform(130, 180, u),
                   confidence |-> Min(90, 75 + strength_diff \div 3),
                   type |-> "Strong Favorite",
                   reasoning |-> <<home_team>> \o r_home_advantage]
             ELSE [bet |-> <<away_team, " Win">>,
                   odds |-> round2_uniform(160, 240, u),
                   confidence |-> Min(85, 70 + strength_diff \div 4),
                   type |-> "Away Value",
                   reasoning |-> <<away_team>> \o r_away_quality]
        ELSE IF strength_diff > 15
        THEN [bet |-> <<"Double Chance">>,
              odds |-> round2_uniform(170, 200, u),
              confidence |-> 75,
              type |-> "Safety Bet",
              reasoning |-> r_moderate]
        ELSE IF Abs(home_stats.goalsFor - away_stats.goalsFor) > 7
        THEN [bet |-> <<"Both Teams to Score">>,
              odds |-> round2_uniform(160, 200, u),
              confidence |-> 72,
              type |-> "Goals Market",
              reasoning |-> r_goals]
        ELSE [bet |-> <<"Under 2.5 Goals">>,
              odds |-> round2_uniform(180, 220, u),
              confidence |-> 68,
              type |-> "Conservative",
              reasoning |-> r_cagey]

\* app.py:576-609 on cache c; the fixed riskFactors texts are left out
analyze_match(c, home_team, away_team, dh, da, u) ==
    LET first == get_team_stats(c, home_team, dh)
        second == get_team_stats(first.cache, away_team, da)
        home_stats == first.stats
        away_stats == second.stats
        home_strength == home_stats.confidence + 7
        away_strength == away_stats.confidence
        strength_diff == Abs(home_strength - away_strength)
    IN  [cache |-> second.cache,
         first |-> first,
         second |-> second,
         strength_diff |-> strength_diff,
         analysis |->
            [homeStats |-> home_stats,
             awayStats |-> away_stats,
             recommendation |->
                generate_smart_recommendation(home_team, away_team, home_stats,
                                              away_stats, strength_diff, u),
             keyFactors |->
                \* the first two f-strings have no comma between them
                \* (app.py:597-598): they are one list element
                << <<home_team, home_stats.rating, away_team, away_stats.rating,
                     "+7", home_team>>,
                   <<home_stats.goalsFor - away_stats.goalsFor>>,
                   <<home_stats.recentForm, away_stats.recentForm>> >>]]


-----------------------------------------------------------------------------
(* Operations on the shared analyzer (app.py:660), one caller at a time *)

\* the draws of one generate_advanced_stats call
StatsDraws ==
    [rating : Frac, gf : Frac, ga : Frac, form : Forms,
     hw : Frac, aw : Frac, cs : Frac, conf : Frac]

\* all draws at the same fraction
Uniform(u, form) ==
    [rating |-> u, gf |-> u, ga |-> u, form |-> form,
     hw |-> u, aw |-> u, cs |-> u, conf |-> u]

\* the low and the high end of every range
CacheDraws ==
    {Uniform(0, <<"L","L","L","L","L">>), Uniform(UDen, <<"W","W","W","W","W">>)}

\* draws for a pair of teams: the rates follow the confidence draw
PairDraws ==
    {[rating |-> r, gf |-> g, ga |-> a, form |-> f,
      hw |-> c, aw |-> c, cs |-> c, conf |-> c] :
        r \in {0, UDen}, g \in {0, UDen}, a \in {0, UDen}, c \in Frac,
        f \in {<<"L","L","L","L","L">>, <<"W","W","W","W","W">>}}

\* the draw of the recommendation's odds when a sequence of calls is followed
CacheOdds == {0}

AllTeams == {"Real Madrid", "Tottenham", "Sevilla", "Lille", "Team X"}
PairTeams == {"Real Madrid", "Sevilla", "Team X"}
CacheTeams == {"Real Madrid", "Sevilla", "Team X"}

NoOp == [op |-> "none", lookups |-> <<>>, result |-> <<>>]

\* what one get_team_stats call saw and gave: r is its outcome on cache c
Lookup(c, times, team_name, r) ==
    [team |-> team_name, at |-> now, hit |-> r.hit, stats |-> r.stats,
     cachedBefore |-> team_name \in DOMAIN c,
     sizeBefore |-> Cardinality(DOMAIN c),
     storedBefore |-> IF team_name \in DOMAIN times THEN times[team_name] ELSE now]

Stamped(times, team_name, r) ==
    IF r.hit THEN times ELSE Put(times, team_name, now)

\* analyzer.get_team_stats(team_name) for a team of T with draws of D
GetTeamStatsWith(T, D) ==
    /\ \E team_name \in T, d \in D :
      \E r \in {get_team_stats(cache, team_name, d)} :
        /\ cache' = r.cache
        /\ storedAt' = Stamped(storedAt, team_name, r)
        /\ last' = [op |-> "get_team_stats",
                    lookups |-> <<Lookup(cache, storedAt, team_name, r)>>,
                    result |-> <<r.stats>>]
    /\ UNCHANGED <<now, fetchVars, raceVars, db>>

\* analyzer.analyze_match(home_team, away_team), the route of app.py:723-734
AnalyzeMatchWith(T, D, Us) ==
    /\ \E home_team \in T, away_team \in T, dh \in D, da \in D, u \in Us :
      \E r \in {analyze_match(cache, home_team, away_team, dh, da, u)} :
        LET mid == Stamped(storedAt, home_team, r.first)
        IN  /\ cache' = r.cache
            /\ storedAt' = Stamped(mid, away_team, r.second)
            /\ last' = [op |-> "analyze_match",
                        lookups |->
                            <<Lookup(cache, storedAt, home_team, r.first),
                              Lookup(r.first.cache, mid, away_team, r.second)>>,
                        result |-> <<[home |-> home_team, away |-> away_team,
                                      strength_diff |-> r.strength_diff,
                                      analysis |-> r.analysis]>>]
    /\ UNCHANGED <<now, fetchVars, raceVars, db>>

TickStep == 30
MaxClock == 30

\* time passes between two requests
Tick ==
    /\ now + TickStep <= MaxClock
    /\ now' = now + TickStep
    /\ UNCHANGED <<cache, storedAt, last, fetchVars, raceVars, db>>

GetTeamStats == GetTeamStatsWith(CacheTeams, CacheDraws)
AnalyzeMatch == AnalyzeMatchWith(CacheTeams, CacheDraws, CacheOdds)

\* the first call on a fresh analyzer, with the full grid of draws
StatsOnce == last = NoOp /\ GetTeamStatsWith(AllTeams, StatsDraws)
AnalyzeOnce == last = NoOp /\ AnalyzeMatchWith(PairTeams, PairDraws, Frac)

-----------------------------------------------------------------------------
(* Two requests in flight on the shared analyzer: the statements of         *)
(* get_team_stats (app.py:521-526) of two threads interleave.              *)

Threads == {1, 2}
RaceTeams == {"Real Madrid", "Team X"}

Idle == [pc |-> "idle", team |-> "", stats |-> <<>>, ret |-> <<>>]

\* a thread enters get_team_stats(team_name)
Enter(t) ==
    /\ threads[t].pc = "idle"
    /\ \E team_name \in RaceTeams :
        threads' = [threads EXCEPT ![t] = [Idle EXCEPT !.pc = "check",
                                                       !.team = team_name]]
    /\ UNCHANGED <<cache, generated, stored, now, storedAt, last, fetchVars, db>>

\* app.py:521-522
Check(t) ==
    /\ threads[t].pc = "check"
    /\ threads' =
        [threads EXCEPT ![t] =
            IF threads[t].team \in DOMAIN cache
            THEN [@ EXCEPT !.pc = "done", !.ret = <<cache[threads[t].team]>>]
            ELSE [@ EXCEPT !.pc = "generate"]]
    /\ UNCHANGED <<cache, generated, stored, now, storedAt, last, fetchVars, db>>

\* app.py:524
Generate(t) ==
    /\ threads[t].pc = "generate"
    /\ \E d \in CacheDraws :
        threads' =
            [threads EXCEPT ![t] =
                [@ EXCEPT !.pc = "store",
                          !.stats = <<generate_advanced_stats(threads[t].team, d)>>]]
    /\ generated' = [generated EXCEPT ![threads[t].team] = @ + 1]
    /\ UNCHANGED <<cache, stored, now, storedAt, last, fetchVars, db>>

\* app.py:525-526
Store(t) ==
    /\ threads[t].pc = "store"
    /\ cache' = Put(cache, threads[t].team, threads[t].stats[1])
    /\ stored' = [stored EXCEPT ![threads[t].team] = @ + 1]
    /\ threads' = [threads EXCEPT ![t] =
                     [@ EXCEPT !.pc = "done", !.ret = threads[t].stats]]
    /\ UNCHANGED <<generated, now, storedAt, last, fetchVars, db>>

-----------------------------------------------------------------------------
(* The database, app.py:19-194.  init_db runs once when the module is      *)
(* loaded (app.py:661), before a request is served; its sqlite calls are   *)
(* taken to succeed.                                                       *)

\* no file yet
FreshDb == [tables |-> {}, leagues |-> 0, teams |-> 0, match_analysis |-> 0]

\* app.py:67-194: nine leagues with their 160 teams, unless leagues has rows
populate_leagues_and_teams(d) ==
    IF d.leagues > 0 THEN d
    ELSE [d EXCEPT !.leagues = 9, !.teams = 160]

\* app.py:31-65
init_db(d) ==
    populate_leagues_and_teams(
        [d EXCEPT !.tables = {"match_analysis", "leagues", "teams"}])

\* the module-level call of app.py:661
Startup ==
    /\ db = FreshDb
    /\ db' = init_db(db)
    /\ UNCHANGED <<fetchVars, cacheVars, raceVars>>

Started == db # FreshDb

-----------------------------------------------------------------------------
(* Specifications *)

\* no get_todays_matches call is made
FetchQuiet ==
    /\ football_data_key = FALSE
    /\ rapidapi_key = FALSE
    /\ sportmonks_key = FALSE
    /\ world = [n \in SeqToSet(sources) |-> Raises]
    /\ league_filter = None
    /\ fpc = "idle"
    /\ idx = 0
    /\ calls = <<>>
    /\ dropped = {}
    /\ ret = NoResult

\* AdvancedAnalyzer.__init__, app.py:516-517, at time 0
InitCache ==
    /\ cache = EmptyDict
    /\ now = 0
    /\ storedAt = EmptyDict
    /\ last = NoOp

InitRace ==
    /\ threads = [t \in Threads |-> Idle]
    /\ generated = [n \in RaceTeams |-> 0]
    /\ stored = [n \in RaceTeams |-> 0]

\* the fallback chain: one get_todays_matches call
\* the database as init_db left it
InitStore == db = init_db(FreshDb)

Init == InitFetch /\ InitCache /\ InitRace /\ InitStore
Next == NextFetch
Spec == Init /\ [][Next]_vars

\* the fallback chain on a crowded day
InitLong == InitFetchWith(LongResponses) /\ InitCache /\ InitRace /\ InitStore
SpecLong == InitLong /\ [][Next]_vars

\* the fallback chain without provider keys, over the filter tokens the
\* generator and the free source tell apart: the pool keys, an alias-table
\* key that is no pool key, and tokens that are neither
GenFilters ==
    {None, f_premier_league, f_la_liga, f_serie_a, f_bundesliga,
     f_champions_league, f_europa_league, f_Bundesliga, f_liga,
     f_2_bundesliga}
InitFilters ==
    /\ football_data_key = FALSE
    /\ rapidapi_key = FALSE
    /\ sportmonks_key = FALSE
    /\ world \in
        {[n \in SeqToSet(sources) |->
            IF n = "fetch_from_free_sources" THEN a ELSE Raises] :
                a \in {Raises, Answer(200, TRUE, <<mPL, mBL>>)}}
    /\ league_filter = None
    /\ fpc = "idle"
    /\ idx = 0
    /\ calls = <<>>
    /\ dropped = {}
    /\ ret = NoResult
    /\ InitCache /\ InitRace /\ InitStore
RequestAny == RequestWith(GenFilters)
NextFilters == RequestAny \/ TrySource \/ Fallback
SpecFilters == InitFilters /\ [][NextFilters]_vars

\* the analyzer under a sequence of calls
InitAnalyzer == FetchQuiet /\ InitCache /\ InitRace /\ InitStore
NextCache == GetTeamStats \/ AnalyzeMatch \/ Tick
SpecCache == InitAnalyzer /\ [][NextCache]_vars

\* one call on a fresh analyzer
NextOnce == StatsOnce \/ AnalyzeOnce
SpecOnce == InitAnalyzer /\ [][NextOnce]_vars

\* the whole service from module load: the two routes /api/matches/today
\* and /api/analyze served in any order; no provider key is configured and
\* OpenLigaDB either fails or answers with two fixtures
InitService ==
    /\ football_data_key = FALSE
    /\ rapidapi_key = FALSE
    /\ sportmonks_key = FALSE
    /\ world \in
        {[n \in SeqToSet(sources) |->
            IF n = "fetch_from_free_sources" THEN a ELSE Raises] :
                a \in {Raises, Answer(200, TRUE, <<mPL, mBL>>)}}
    /\ league_filter = None
    /\ fpc = "idle"
    /\ idx = 0
    /\ calls = <<>>
    /\ dropped = {}
    /\ ret = NoResult
    /\ InitCache
    /\ InitRace
    /\ db = FreshDb
NextService ==
    Startup \/ (Started /\ (NextFetch \/ GetTeamStats \/ AnalyzeMatch))
SpecService == InitService /\ [][NextService]_vars

\* two threads in get_team_stats
NextRace == \E t \in Threads : Enter(t) \/ Check(t) \/ Generate(t) \/ Store(t)
SpecRace == InitAnalyzer /\ [][NextRace]_vars


-----------------------------------------------------------------------------
(* Properties of the fallback chain (Spec) *)

\* the priority order the chain is documented to follow
Priority ==
    <<"fetch_from_football_data", "fetch_from_rapidapi_football",
      "fetch_from_sportmonks", "fetch_from_free_sources">>

Chain == Priority \o <<"get_intelligent_matches">>

\* the provenance tag each adapter writes
Tag(name) ==
    CASE name = "fetch_from_football_data" -> "Football-Data.org"
      [] name = "fetch_from_rapidapi_football" -> "RapidAPI Football"
      [] name = "fetch_from_sportmonks" -> "Sportmonks"
      [] name = "fetch_from_free_sources" -> "OpenLigaDB"

CallNames == [i \in 1..Len(calls) |-> calls[i].name]
CallOutcomes == {calls[i].outcome : i \in 1..Len(calls)}
Sources(list) == {list[i].source : i \in 1..Len(list)}

\* adapter `name`, asked with the present filter, would return a non-empty list
WouldSucceed(name) ==
    LET r == Invoke(name, league_filter, "lo")
    IN  ~r.exc /\ r.value # <<>>

Succeeding == {i \in 1..Len(Priority) : WouldSucceed(Priority[i])}
Least(S) == CHOOSE i \in S : \A j \in S : i <= j

\* C1: whatever each provider does (no key, exception or timeout, non-200
\* answer, malformed payload, empty result), on every weekday and for every
\* league filter, get_todays_matches hands its caller a list and never an
\* exception, and the call is never stuck inside the loop.
C1_ReturnsListNeverRaises ==
    /\ ret.kind # "exception"
    /\ fpc = "done" =>
        /\ ret.kind = "list"
        /\ DOMAIN ret.value = 1..Len(ret.value)
    /\ fpc = "loop" => idx \in 1..(Len(sources) + 1)

\* C1 witness: a call in which adapters raised and adapters returned empty,
\* ended by the generator's INFO record
C1_Witness ==
    /\ fpc = "done"
    /\ {"raised", "empty"} \subseteq CallOutcomes
    /\ Len(ret.value) = 1
    /\ ret.value[1].status = "INFO"

\* C2: first-success-wins.  When two or more adapters would each return a
\* non-empty list, the call returns exactly the list of the earliest of them
\* in the priority order, every record carries that adapter's tag, and the
\* adapters after it are not invoked.
C2_FirstSuccessWins ==
    fpc = "done" =>
        LET S == Succeeding
            first == Least(S)
        IN  S # {} =>
                /\ \E s \in Streams :
                    ret.value = Invoke(Priority[first], league_filter, s).value
                /\ Sources(ret.value) = {Tag(Priority[first])}
                /\ CallNames = SubSeq(Priority, 1, first)

\* C2 witness: the first adapter fails, the second and a later one would
\* both succeed
C2_Witness ==
    /\ fpc = "done"
    /\ calls[1].outcome = "raised"
    /\ Cardinality(Succeeding) >= 2
    /\ Least(Succeeding) = 2

\* the normalisation adapter `name` runs on the payload it is sent
Normalised(name) ==
    CASE name = "fetch_from_football_data" ->
            process_football_data_matches(world[name].body, league_filter, "lo")
      [] name = "fetch_from_rapidapi_football" ->
            process_rapidapi_matches(world[name].body, league_filter, "lo")
      [] name = "fetch_from_sportmonks" ->
            process_sportmonks_matches(world[name].body, league_filter, "lo")
      [] name = "fetch_from_free_sources" ->
            process_openliga_matches(today_matches(world[name].body), "lo")

RaisesMidway(name) ==
    /\ world[name].keyed
    /\ Normalised(name).exc
    /\ Normalised(name).processed # <<>>

\* C3: every returned list carries one source value across its records, and
\* the records an adapter had normalised before it raised are not in it: no
\* record of the list is one of the dropped ones, nor carries the tag of an
\* adapter whose normalisation raises on its payload.
C3_SingleSourceNoPartial ==
    fpc = "done" =>
        /\ Cardinality(Sources(ret.value)) <= 1
        /\ SeqToSet(ret.value) \cap dropped = {}
        /\ \A i \in 1..Len(Priority) :
            RaisesMidway(Priority[i]) => Tag(Priority[i]) \notin Sources(ret.value)

\* C3 witness: an adapter raised after normalising a record, and a later
\* adapter's list was returned
C3_Witness ==
    /\ fpc = "done"
    /\ dropped # {}
    /\ Len(ret.value) = 2
    /\ Sources(ret.value) = {"Sportmonks"}

\* C10: within one call the adapters are invoked at most once each and in
\* priority order, an adapter is invoked only after every adapter before it
\* raised or returned an empty list, and the synthetic generator only after
\* all four did.
C10_OncePerAdapterInOrder ==
    /\ Len(calls) <= Len(Chain)
    /\ \A i \in 1..Len(calls) : calls[i].name = Chain[i]
    /\ \A i \in 1..(Len(calls) - 1) : calls[i].outcome \in {"raised", "empty"}

\* C10 witness: the generator runs after an adapter raised and another
\* returned an empty list
C10_Witness ==
    /\ Len(calls) = 5
    /\ calls[5].name = "get_intelligent_matches"
    /\ calls[1].outcome = "raised"
    /\ calls[2].outcome = "empty"
    /\ calls[3].outcome = "raised"

\* the credential each keyed adapter tests before it asks its provider
\* (the free source has none)
Keyed ==
    {"fetch_from_football_data", "fetch_from_rapidapi_football",
     "fetch_from_sportmonks"}

KeyOf(name) ==
    CASE name = "fetch_from_football_data" -> football_data_key
      [] name = "fetch_from_rapidapi_football" -> rapidapi_key
      [] name = "fetch_from_sportmonks" -> sportmonks_key

Skipped(i) == calls[i].name \in Keyed /\ ~KeyOf(calls[i].name)

\* C11: an adapter whose credential is not configured returns an empty list
\* without sending a request, and the chain goes on with the next adapter:
\* the absence is a skip, not a failure.
C11_AbsentKeySkips ==
    \A i \in 1..Len(calls) :
        Skipped(i) =>
            /\ calls[i].outcome = "empty"
            /\ ~calls[i].net
            /\ ret.kind # "exception"
            /\ IF i < Len(calls) THEN calls[i + 1].name = Chain[i + 1]
               ELSE fpc = "loop" /\ idx = i + 1

\* C11 witness: the second adapter has no key and sends nothing, between a
\* first adapter that asked and a third that asked and delivered
C11_Witness ==
    /\ fpc = "done"
    /\ Len(calls) = 3
    /\ calls[1].net
    /\ Skipped(2) /\ ~calls[2].net
    /\ calls[3].net /\ calls[3].outcome = "nonempty"

-----------------------------------------------------------------------------
(* Properties of the returned fixture records (Spec, SpecLong) *)

ReturnedList == IF fpc = "done" /\ ret.kind = "list" THEN ret.value ELSE <<>>
Records == SeqToSet(ReturnedList)

\* C12: every record of every returned list, from an adapter or from the
\* generator, has homeOdds, drawOdds and awayOdds of at least 1.0 (100
\* hundredths).
C12_OddsAtLeastOne ==
    \A m \in Records :
        m.homeOdds >= 100 /\ m.drawOdds >= 100 /\ m.awayOdds >= 100

\* the statuses a fixture record is documented to carry
CanonicalStatus == {"SCHEDULED", "TIMED", "IN_PLAY", "LIVE", "INFO"}

\* C13: every returned record has a status of the canonical set, each
\* adapter mapping the provider's own status into it.
C13_StatusCanonical ==
    \A m \in Records : m.status \in CanonicalStatus

\* the id prefix that goes with each source tag
Prefix(source) ==
    CASE source = "Football-Data.org" -> "fd_"
      [] source = "RapidAPI Football" -> "ra_"
      [] source = "Sportmonks" -> "sm_"
      [] source = "OpenLigaDB" -> "ol_"
      [] source = "Intelligent Sample" -> "sample-"
      [] source = "system" -> "info-no-matches"

\* the provider-side match ids of the payload a list was made from differ
DistinctProviderIds ==
    \A n \in SeqToSet(sources) :
        \A i, j \in 1..Len(world[n].body) :
            i # j => world[n].body[i].id # world[n].body[j].id

\* C16: in every returned list the ids are pairwise distinct (the provider's
\* own match ids being distinct) and each id starts with the tag of the
\* source that produced the record: fd_, ra_, sm_, ol_, and the generator's
\* sample- and info- ids.
C16_IdsDistinctAndTagged ==
    DistinctProviderIds =>
        /\ \A i, j \in 1..Len(ReturnedList) :
              i # j => ReturnedList[i].id # ReturnedList[j].id
        /\ \A m \in Records : m.id[1] = Prefix(m.source)

\* C16 witness: the six sample records of a weekend
C16_Witness ==
    /\ Len(ReturnedList) = 6
    /\ ReturnedList[1].id = <<"sample-", 0>>
    /\ ReturnedList[6].id = <<"sample-", 5>>

\* C17: a returned list holds at most 15 fixtures, and at most 10 when the
\* OpenLigaDB adapter produced it, however many the payload holds.
C17_AtMostFifteen ==
    /\ Len(ReturnedList) <= 15
    /\ (\E m \in Records : m.source = "OpenLigaDB") => Len(ReturnedList) <= 10

\* C17 witness: the OpenLigaDB payload holds more than 15 fixtures of today
\* and the list made from it holds 10
C17_Witness ==
    /\ Len(world["fetch_from_free_sources"].body) > 15
    /\ Len(ReturnedList) = 10
    /\ ReturnedList[1].source = "OpenLigaDB"

-----------------------------------------------------------------------------
(* Properties of the team-stats cache (SpecCache, SpecRace) *)

\* reference values of the cache policy the claims are stated with: the
\* time-to-live in minutes, and the capacity bound (scaled down from 50)
TTL == 30
CacheCapacity == 2

Lookups == {last.lookups[i] : i \in 1..Len(last.lookups)}

\* C4: two get_team_stats calls for the same team return identical stats.
\* Every call returns the entry the cache holds for the team, and an entry,
\* once stored, is never replaced: so the two lookups of one analyze_match
\* call agree, and so do lookups of successive calls.
C4_StableOnHit ==
    /\ [](\A l \in Lookups :
            /\ l.team \in DOMAIN cache
            /\ l.stats = cache[l.team])
    /\ [][\A t \in DOMAIN cache :
            t \in DOMAIN cache' /\ cache'[t] = cache[t]]_vars

\* C4 witness: analyze_match with the same team on both sides, the second
\* lookup a hit on what the first one stored
C4_Witness ==
    /\ last.op = "analyze_match"
    /\ last.lookups[1].team = last.lookups[2].team
    /\ ~last.lookups[1].hit
    /\ last.lookups[2].hit
    /\ Cardinality(DOMAIN cache) >= 2

\* C5: once the TTL has elapsed since a team's stats were stored, the next
\* get_team_stats call for the team recomputes them and stores them with a
\* strictly later time.
C5_RecomputesAfterTTL ==
    \A l \in Lookups :
        (l.cachedBefore /\ l.at - l.storedBefore >= TTL) =>
            /\ ~l.hit
            /\ storedAt[l.team] = l.at
            /\ storedAt[l.team] > l.storedBefore

\* C6: a get_team_stats call for a team that would push the cache past its
\* capacity clears the cache before storing, so the cache holds one entry
\* right after the call.
C6_FlushAtCapacity ==
    (last.op = "get_team_stats" /\
     \E l \in Lookups : ~l.cachedBefore /\ l.sizeBefore >= CacheCapacity) =>
        Cardinality(DOMAIN cache) = 1

\* C7: two concurrent get_team_stats calls for the same uncached team are
\* serialized: the stats are generated once, stored once, and both callers
\* get the same stats.
C7_Serialized ==
    /\ \A n \in RaceTeams : generated[n] <= 1 /\ stored[n] <= 1
    /\ (\A t \in Threads : threads[t].pc = "done") /\
       threads[1].team = threads[2].team =>
            threads[1].ret = threads[2].ret

-----------------------------------------------------------------------------
(* Properties of one analysis on a fresh analyzer (SpecOnce) *)

Analysed == last.op = "analyze_match"
Result == last.result[1]

RealMadridVsUnrated ==
    /\ Analysed
    /\ Result.home = "Real Madrid"
    /\ ~Rated(Result.away)

\* C8 as stated: Real Madrid at home against a team of neither rating table
\* always has strengthDiff > 25 and gets 'Real Madrid Win', 'Strong Favorite'.
C8_AlwaysStrongFavorite ==
    RealMadridVsUnrated =>
        /\ Result.strength_diff > 25
        /\ Result.analysis.recommendation.bet = <<"Real Madrid", " Win">>
        /\ Result.analysis.recommendation.type = "Strong Favorite"

\* C8 amended: the ratings differ by at least 27 with the home advantage,
\* but strengthDiff is taken from the confidences, each up to 5 off its
\* rating: strengthDiff is at least 17 with Real Madrid the stronger side,
\* and the bet is 'Real Madrid Win' / 'Strong Favorite' when strengthDiff
\* exceeds 25 and 'Double Chance' / 'Safety Bet' otherwise.
C8_FavoriteOrDoubleChance ==
    RealMadridVsUnrated =>
        LET hs == Result.analysis.homeStats
            as == Result.analysis.awayStats
            rec == Result.analysis.recommendation
        IN  /\ hs.rating = 95 /\ as.rating \in 60..75
            /\ hs.rating + 7 - as.rating > 25
            /\ Result.strength_diff = hs.confidence + 7 - as.confidence
            /\ Result.strength_diff >= 17
            /\ Result.strength_diff > 25 =>
                /\ rec.bet = <<"Real Madrid", " Win">>
                /\ rec.type = "Strong Favorite"
            /\ Result.strength_diff <= 25 =>
                /\ rec.bet = <<"Double Chance">>
                /\ rec.type = "Safety Bet"

\* C8 witness: Real Madrid against an unrated team, strengthDiff at its
\* least, the bet a Double Chance
C8_Witness ==
    /\ RealMadridVsUnrated
    /\ Result.strength_diff = 17
    /\ Result.analysis.recommendation.bet = <<"Double Chance">>

\* C9: the stats get_team_stats returns keep every percentage inside its
\* clamp, and so inside 0..100: confidence 55..95, homeWinRate 30..90,
\* awayWinRate 20..80, cleanSheets 15..80.
C9_PercentagesClamped ==
    \A l \in Lookups :
        /\ l.stats.confidence \in 55..95
        /\ l.stats.homeWinRate \in 30..90
        /\ l.stats.awayWinRate \in 20..80
        /\ l.stats.cleanSheets \in 15..80
        /\ \A v \in {l.stats.confidence, l.stats.homeWinRate,
                     l.stats.awayWinRate, l.stats.cleanSheets} : v \in 0..100

\* C9 witness: stats of a team rated 95 whose clean-sheet rate (75 plus a
\* draw of 15) and confidence were cut down to their ceilings
C9_Witness ==
    /\ last.op = "get_team_stats"
    /\ \E l \in Lookups :
        /\ l.stats.rating = 95
        /\ l.stats.cleanSheets = 80
        /\ l.stats.confidence = 95
        /\ l.stats.homeWinRate = 90

Rec == Result.analysis.recommendation
HomeStats == Result.analysis.homeStats
AwayStats == Result.analysis.awayStats

\* C14: the odds of every recommendation lie inside the range of its market,
\* in hundredths: home win 130..180, away win 160..240, Double Chance
\* 170..200, Both Teams to Score 160..200, Under 2.5 Goals 180..220.
C14_OddsInMarketRange ==
    Analysed =>
        /\ Rec.type \in {"Strong Favorite", "Away Value", "Safety Bet",
                         "Goals Market", "Conservative"}
        /\ Rec.type = "Strong Favorite" =>
              Rec.bet = <<Result.home, " Win">> /\ Rec.odds \in 130..180
        /\ Rec.type = "Away Value" =>
              Rec.bet = <<Result.away, " Win">> /\ Rec.odds \in 160..240
        /\ Rec.type = "Safety Bet" =>
              Rec.bet = <<"Double Chance">> /\ Rec.odds \in 170..200
        /\ Rec.type = "Goals Market" =>
              Rec.bet = <<"Both Teams to Score">> /\ Rec.odds \in 160..200
        /\ Rec.type = "Conservative" =>
              Rec.bet = <<"Under 2.5 Goals">> /\ Rec.odds \in 180..220

\* C14 witness: an away win recommended at the top of its range
C14_Witness ==
    /\ Analysed
    /\ Rec.bet = <<"Real Madrid", " Win">>
    /\ Rec.type = "Away Value"
    /\ Rec.odds = 240

\* C15: whichever rung of the ladder decides, the reasoning text is not
\* empty and its last character is a period.
C15_ReasoningEndsWithPeriod ==
    Analysed =>
        /\ Len(Rec.reasoning) > 0
        /\ Rec.reasoning[Len(Rec.reasoning)] = "."

\* wins among the five results of a recentForm text such as W-D-L-W-D
Wins(form) == Cardinality({i \in 1..Len(form) : form[i] = "W"})

\* the form tallies strongly favour the first side over the second
FormFavours(a, b) == Wins(a.recentForm) >= 4 /\ Wins(b.recentForm) <= 1

\* C19: second rung of the ladder.  When strengthDiff is at most 25 and one
\* side has at least 4 wins in its 5 results against at most 1 of the
\* other, the recommendation is a bet on that side, ahead of the goals
\* market and of Under 2.5 Goals.
C19_FormRung ==
    (Analysed /\ Result.strength_diff <= 25) =>
        /\ FormFavours(HomeStats, AwayStats) =>
              Rec.bet = <<Result.home, " Win">>
        /\ FormFavours(AwayStats, HomeStats) =>
              Rec.bet = <<Result.away, " Win">>

\* goalsFor and goalsAgainst are kept in tenths
GoalsGap == Abs(HomeStats.goalsFor - AwayStats.goalsFor)

\* C20: goals rung.  When no rung before it decides (strengthDiff is at
\* most 15, so neither the favourite rung nor a Double Chance applies, and
\* the form favours neither side) and the goalsFor values differ by more
\* than 0.7, the bet is Both Teams to Score if both goalsAgainst exceed 1.2
\* and Over 2.5 Goals otherwise.
C20_GoalsRung ==
    (/\ Analysed
     /\ Result.strength_diff <= 15
     /\ ~FormFavours(HomeStats, AwayStats)
     /\ ~FormFavours(AwayStats, HomeStats)
     /\ GoalsGap > 7) =>
        IF HomeStats.goalsAgainst > 12 /\ AwayStats.goalsAgainst > 12
        THEN Rec.bet = <<"Both Teams to Score">>
        ELSE Rec.bet = <<"Over 2.5 Goals">>

-----------------------------------------------------------------------------
(* Frame of the two operations (SpecService) *)

\* a step of get_todays_matches
FetchStep == fetchVars' # fetchVars

\* a step that is an analyze_match call
AnalyzeStep == last' # last /\ last'.op = "analyze_match"

\* the cache agrees before and after at every key outside `keys`
SameOutside(keys) ==
    /\ DOMAIN cache' \subseteq DOMAIN cache \cup keys
    /\ \A t \in DOMAIN cache \ keys :
          t \in DOMAIN cache' /\ cache'[t] = cache[t]

\* C18: get_todays_matches leaves the team-stats cache as it is;
\* analyze_match(home, away) changes the cache at no key but home and away
\* and leaves the stats stored under every other team as they were (stats
\* already stored under home or away are kept too); neither writes to the
\* database.
C18_Frame ==
    [][/\ FetchStep => (cache' = cache /\ db' = db)
       /\ AnalyzeStep =>
            /\ SameOutside({last'.result[1].home, last'.result[1].away})
            /\ \A t \in DOMAIN cache :
                  t \in DOMAIN cache' /\ cache'[t] = cache[t]
            /\ db' = db]_vars

\* C18 witness: a list was fetched, and an analysis stored the stats of its
\* two teams next to those of a third team cached before
C18_Witness ==
    /\ fpc = "done"
    /\ Len(ret.value) = 2
    /\ last.op = "analyze_match"
    /\ last.lookups[1].sizeBefore = 1
    /\ ~last.lookups[1].hit /\ ~last.lookups[2].hit
    /\ Cardinality(DOMAIN cache) = 3
    /\ db = init_db(FreshDb)

-----------------------------------------------------------------------------
(* Properties of the favourite rung and of a team against itself (SpecOnce) *)

HomeStrength == HomeStats.confidence + 7
AwayStrength == AwayStats.confidence
Gap ==
    IF HomeStrength > AwayStrength THEN HomeStrength - AwayStrength
    ELSE AwayStrength - HomeStrength

\* C21: first rung.  strengthDiff is |(home confidence + 7) - away
\* confidence|, and whenever it exceeds 25 the bet is '<Team> Win' for the
\* side with the strictly greater strength, whatever the forms and goal
\* figures of the two teams are.
C21_FavoriteRung ==
    Analysed =>
        /\ Result.strength_diff = Gap
        /\ Gap > 25 =>
              /\ HomeStrength # AwayStrength
              /\ HomeStrength > AwayStrength =>
                    Rec.bet = <<Result.home, " Win">>
              /\ AwayStrength > HomeStrength =>
                    Rec.bet = <<Result.away, " Win">>

\* C21 witness: the away side is the stronger by more than 25 while the form
\* (five wins against five losses) speaks for the home side
C21_Witness ==
    /\ Analysed
    /\ AwayStrength - HomeStrength > 25
    /\ Wins(HomeStats.recentForm) = 5
    /\ Wins(AwayStats.recentForm) = 0
    /\ Rec.bet = <<Result.away, " Win">>

\* C22: in the favourite rung the confidence is min(90, 75 + strengthDiff
\* div 3) when the home side is favoured and min(85, 70 + strengthDiff div
\* 4) when the away side is; it stays at or under 90 and 85, and at the
\* same strengthDiff the away value is not above the home value.
C22_FavoriteConfidence ==
    (Analysed /\ Gap > 25) =>
        LET home_value == IF 75 + Gap \div 3 < 90 THEN 75 + Gap \div 3 ELSE 90
            away_value == IF 70 + Gap \div 4 < 85 THEN 70 + Gap \div 4 ELSE 85
        IN  /\ HomeStrength > AwayStrength =>
                  Rec.confidence = home_value /\ Rec.confidence <= 90
            /\ AwayStrength > HomeStrength =>
                  Rec.confidence = away_value /\ Rec.confidence <= 85
            /\ Rec.confidence \in Int
            /\ away_value <= home_value

\* C22 witness: the away side favoured at the largest strengthDiff it can
\* reach, 95 against 55 + 7
C22_Witness ==
    /\ Analysed
    /\ AwayStrength - HomeStrength = 33
    /\ Rec.type = "Away Value"
    /\ Rec.confidence = 78

\* C26: a team analysed against itself gets one stats record for both sides
\* (the second lookup is a cache hit), so strengthDiff is exactly 7 and the
\* recommendation is Under 2.5 Goals, Conservative, confidence 68.
C26_SameTeam ==
    (Analysed /\ Result.home = Result.away) =>
        /\ last.lookups[2].hit
        /\ HomeStats = AwayStats
        /\ Result.strength_diff = 7
        /\ Rec.bet = <<"Under 2.5 Goals">>
        /\ Rec.type = "Conservative"
        /\ Rec.confidence = 68

\* C26 witness: an unrated team against itself
C26_Witness ==
    /\ Analysed
    /\ Result.home = "Team X" /\ Result.away = "Team X"
    /\ ~last.lookups[1].hit /\ last.lookups[2].hit
    /\ Rec.bet = <<"Under 2.5 Goals">>

-----------------------------------------------------------------------------
(* Properties of the generator and of the league filter (SpecFilters) *)

\* the call ended in the synthetic generator, which read weekday GenDay
Generated ==
    /\ fpc = "done"
    /\ calls # <<>>
    /\ calls[Len(calls)].name = "get_intelligent_matches"
GenDay == calls[Len(calls)].day

Leagues(list) == [i \in 1..Len(list) |-> list[i].league]

\* the league each pool of the generator is made of
PoolLeague(k) ==
    CASE k = f_premier_league -> s_PremierLeague
      [] k = f_la_liga -> s_LaLiga
      [] k = f_serie_a -> s_SerieA
      [] k = f_bundesliga -> s_Bundesliga
      [] k = f_champions_league -> s_ChampionsLeague

PoolKeys ==
    {f_premier_league, f_la_liga, f_serie_a, f_bundesliga, f_champions_league}

\* C23: with a filter token equal to a pool key the generator returns that
\* pool's fixtures only, on every day of the week, and every record's
\* league is the pool's league.
C23_PoolKeyFilter ==
    (Generated /\ league_filter \in PoolKeys) =>
        /\ Len(ret.value) = Len(all_matches(league_filter))
        /\ \A i \in 1..Len(ret.value) :
              /\ ret.value[i].homeTeam = all_matches(league_filter)[i][1]
              /\ ret.value[i].awayTeam = all_matches(league_filter)[i][2]
              /\ ret.value[i].league = PoolLeague(league_filter)
              /\ ret.value[i].source = "Intelligent Sample"

\* C23 witness: the Serie A pool on a Saturday, a day that serves the
\* blended set without a filter
C23_Witness ==
    /\ Generated
    /\ league_filter = f_serie_a
    /\ GenDay = 5
    /\ Len(ret.value) = 4
    /\ ret.value[4].homeTeam = "Atalanta"

\* C24: without a filter equal to a pool key the weekday alone decides:
\* Saturday and Sunday give 2 Premier League, 2 La Liga, 1 Serie A and 1
\* Bundesliga fixture, Wednesday the Champions League pool, every other day
\* exactly one record, of status INFO.
C24_ByWeekday ==
    (Generated /\ league_filter \notin PoolKeys) =>
        /\ GenDay \in {5, 6} =>
              Leagues(ret.value) =
                <<s_PremierLeague, s_PremierLeague, s_LaLiga, s_LaLiga,
                  s_SerieA, s_Bundesliga>>
        /\ GenDay = 2 =>
              /\ Len(ret.value) = 4
              /\ \A i \in 1..4 :
                    /\ ret.value[i].league = s_ChampionsLeague
                    /\ ret.value[i].homeTeam
                          = all_matches(f_champions_league)[i][1]
        /\ GenDay \notin {2, 5, 6} =>
              /\ Len(ret.value) = 1
              /\ ret.value[1].status = "INFO"

\* C24 witness: a Sunday with a filter token that is no pool key
C24_Witness ==
    /\ Generated
    /\ league_filter = f_europa_league
    /\ GenDay = 6
    /\ Len(ret.value) = 6

\* C25: with a league filter supplied, every record of the returned list
\* other than an INFO record is of a league that matches the filter, by
\* the alias table or the case-insensitive substring rule.
C25_FilterRespected ==
    (fpc = "done" /\ Truthy(league_filter)) =>
        \A m \in SeqToSet(ret.value) :
            m.status # "INFO" => matches_league_filter(m.league, league_filter)

=============================================================================
